---- MODULE Spec2Model ----
(***************************************************************************)
(* Model of qwen_service.py: the two upload handlers extract_invoice       *)
(* (POST /ocr) and extract_weight (POST /extract-weight), the backend call *)
(* they make through the module-level client, and the interpretation of    *)
(* the backend's reply on the weight path (regular expression, json.loads, *)
(* truthiness test, digit filter, float).                                  *)
(*                                                                         *)
(* A text is a sequence of characters; a character is a one-character      *)
(* string, except "sup2", which stands for the single character U+00B2     *)
(* (SUPERSCRIPT TWO).  The alphabet has no backslash, so string escapes    *)
(* never occur; exponents and digit runs stay short, so every number is a  *)
(* finite float except the literals NaN, Infinity and -Infinity.           *)
(***************************************************************************)
EXTENDS Integers, Sequences, FiniteSets, TLC

\* ------------------------------------------------------------ characters

DecimalDigits == {"0", "1", "2", "3", "4", "5", "6", "7", "8", "9"}

DigitVal(c) ==
    CASE c = "0" -> 0 [] c = "1" -> 1 [] c = "2" -> 2 [] c = "3" -> 3
      [] c = "4" -> 4 [] c = "5" -> 5 [] c = "6" -> 6 [] c = "7" -> 7
      [] c = "8" -> 8 [] c = "9" -> 9

\* str.isdigit() of a one-character string: true of the decimal digits and
\* of the characters whose Unicode Numeric_Type is Digit, such as U+00B2.
IsDigit(c) == c \in DecimalDigits \cup {"sup2"}

\* the characters JSON skips between tokens
JsonWhitespace == {" ", "\t", "\n", "\r"}

\* the characters below U+0020 of the alphabet: not allowed inside a JSON string
ControlChars == {"\t", "\n", "\r"}

\* ------------------------------------------------------------ numbers

\* A Python number: cls is "int" or "float"; kind is "fin", "nan" or "inf";
\* a finite one is (-1)^neg * m * 10^(-e), with m not a multiple of 10
\* unless e = 0, and neg = FALSE when m = 0 (-0.0 = 0.0 in Python).
RECURSIVE Pow10(_)
Pow10(k) == IF k = 0 THEN 1 ELSE 10 * Pow10(k - 1)

RECURSIVE Normalize(_, _, _, _)
Normalize(cls, neg, m, e) ==
    IF e > 0 /\ m % 10 = 0
    THEN Normalize(cls, neg, m \div 10, e - 1)
    ELSE [cls |-> cls, kind |-> "fin", neg |-> (neg /\ m # 0), m |-> m, e |-> e]

\* m * 10^x as a number of class cls
Scaled(cls, neg, m, x) ==
    IF x >= 0 THEN Normalize(cls, neg, m * Pow10(x), 0)
    ELSE Normalize(cls, neg, m, 0 - x)

NonFinite(kind, neg) ==
    [cls |-> "float", kind |-> kind, neg |-> neg, m |-> 0, e |-> 0]

Zero == Normalize("int", FALSE, 0, 0)

\* bool(x) of a number: false exactly for zero (NaN and the infinities are true)
NumTruthy(num) == num.kind # "fin" \/ num.m # 0

\* float(x) of an int or a float
FloatOfNum(num) == [num EXCEPT !.cls = "float"]

\* ------------------------------------------------------------ JSON values

VNull == [t |-> "null", b |-> FALSE, num |-> Zero, s |-> <<>>, items |-> <<>>]
VBool(b) == [VNull EXCEPT !.t = "bool", !.b = b]
VNum(num) == [VNull EXCEPT !.t = "num", !.num = num]
VStr(s) == [VNull EXCEPT !.t = "str", !.s = s]
VList(elems) == [VNull EXCEPT !.t = "list", !.items = elems]
\* a dict keeps its members in source order as <<[k |-> key, v |-> value], ...>>
VDict(members) == [VNull EXCEPT !.t = "dict", !.items = members]

ParseFail == [ok |-> FALSE, val |-> VNull, pos |-> 0]
ParseOk(v, p) == [ok |-> TRUE, val |-> v, pos |-> p]

RECURSIVE SkipWs(_, _)
SkipWs(s, i) ==
    IF i <= Len(s) /\ s[i] \in JsonWhitespace THEN SkipWs(s, i + 1) ELSE i

\* the first index from i on that holds no decimal digit
RECURSIVE DigitsEnd(_, _)
DigitsEnd(s, i) ==
    IF i <= Len(s) /\ s[i] \in DecimalDigits THEN DigitsEnd(s, i + 1) ELSE i

\* the natural number written s[a], ..., s[b-1]
RECURSIVE NatOf(_, _, _)
NatOf(s, a, b) ==
    IF b <= a THEN 0 ELSE 10 * NatOf(s, a, b - 1) + DigitVal(s[b - 1])

At(s, i, c) == i <= Len(s) /\ s[i] = c

DigitAt(s, i) == i <= Len(s) /\ s[i] \in DecimalDigits

Matches(s, i, word) ==
    /\ i + Len(word) - 1 <= Len(s)
    /\ \A k \in 1..Len(word) : s[i + k - 1] = word[k]

\* json.scanner NUMBER_RE at position i, group by group:
\*   (-?(?:0|[1-9]\d*))(\.\d+)?([eE][-+]?\d+)?
\* The value: int(integer) without fraction and exponent, else
\* float(integer + frac + exp).
NumberValue(s, neg, a, intEnd, fracEnd, expStart, expEnd) ==
    Scaled(IF expEnd > intEnd THEN "float" ELSE "int",
           neg,
           NatOf(s, a, intEnd) * Pow10(IF fracEnd > intEnd THEN fracEnd - intEnd - 1 ELSE 0)
               + (IF fracEnd > intEnd THEN NatOf(s, intEnd + 1, fracEnd) ELSE 0),
           (IF expEnd > fracEnd
            THEN (IF At(s, fracEnd + 1, "-") THEN 0 - NatOf(s, expStart, expEnd)
                  ELSE NatOf(s, expStart, expEnd))
            ELSE 0)
               - (IF fracEnd > intEnd THEN fracEnd - intEnd - 1 ELSE 0))

\* ([eE][-+]?\d+)? from fracEnd, the digits of the exponent from expStart
ScanExponent(s, neg, a, intEnd, fracEnd, expStart) ==
    IF (At(s, fracEnd, "e") \/ At(s, fracEnd, "E")) /\ DigitAt(s, expStart)
    THEN ParseOk(VNum(NumberValue(s, neg, a, intEnd, fracEnd, expStart,
                                  DigitsEnd(s, expStart))),
                 DigitsEnd(s, expStart))
    ELSE ParseOk(VNum(NumberValue(s, neg, a, intEnd, fracEnd, fracEnd, fracEnd)), fracEnd)

\* (\.\d+)? from intEnd has been matched up to fracEnd
ScanAfterFraction(s, neg, a, intEnd, fracEnd) ==
    ScanExponent(s, neg, a, intEnd, fracEnd,
                 IF At(s, fracEnd + 1, "-") \/ At(s, fracEnd + 1, "+")
                 THEN fracEnd + 2 ELSE fracEnd + 1)

\* (-?(?:0|[1-9]\d*)) has been matched from a up to intEnd
ScanAfterInteger(s, neg, a, intEnd) ==
    IF intEnd = a THEN ParseFail
    ELSE ScanAfterFraction(s, neg, a, intEnd,
             IF At(s, intEnd, ".") /\ DigitAt(s, intEnd + 1)
             THEN DigitsEnd(s, intEnd + 1) ELSE intEnd)

ScanUnsigned(s, neg, a) ==
    ScanAfterInteger(s, neg, a, IF At(s, a, "0") THEN a + 1 ELSE DigitsEnd(s, a))

ScanNumber(s, i) ==
    IF At(s, i, "-") THEN ScanUnsigned(s, TRUE, i + 1) ELSE ScanUnsigned(s, FALSE, i)

\* json.decoder.py_scanstring, strict: i is the index after the opening quote
RECURSIVE ScanString(_, _, _)
ScanString(s, i, acc) ==
    IF i > Len(s) THEN ParseFail
    ELSE IF s[i] = "\"" THEN ParseOk(VStr(acc), i + 1)
    ELSE IF s[i] \in ControlChars THEN ParseFail
    ELSE ScanString(s, i + 1, Append(acc, s[i]))

RECURSIVE ParseValue(_, _)
RECURSIVE ParseMembers(_, _, _)
RECURSIVE ParseElements(_, _, _)

\* json.decoder.JSONObject: i is the index after "{"
ParseObject(s, i) ==
    LET j == SkipWs(s, i)
    IN  IF j > Len(s) THEN ParseFail
        ELSE IF s[j] = "}" THEN ParseOk(VDict(<<>>), j + 1)
        ELSE ParseMembers(s, j, <<>>)

\* after a member's value: "}" ends the object, "," asks for another member
AfterMember(s, d, members) ==
    IF At(s, d, "}") THEN ParseOk(VDict(members), d + 1)
    ELSE IF At(s, d, ",") THEN ParseMembers(s, SkipWs(s, d + 1), members)
    ELSE ParseFail

AfterMemberValue(s, key, v, acc) ==
    IF ~v.ok THEN ParseFail
    ELSE AfterMember(s, SkipWs(s, v.pos), Append(acc, [k |-> key, v |-> v.val]))

AfterMemberColon(s, key, colon, acc) ==
    IF ~At(s, colon, ":") THEN ParseFail
    ELSE AfterMemberValue(s, key, ParseValue(s, SkipWs(s, colon + 1)), acc)

AfterMemberKey(s, key, acc) ==
    IF ~key.ok THEN ParseFail
    ELSE AfterMemberColon(s, key.val.s, SkipWs(s, key.pos), acc)

\* one "key": value pair starting at i, then "," and the next pair, or "}"
ParseMembers(s, i, acc) ==
    IF ~At(s, i, "\"") THEN ParseFail
    ELSE AfterMemberKey(s, ScanString(s, i + 1, <<>>), acc)

\* json.decoder.JSONArray: i is the index after "["
ParseArray(s, i) ==
    LET j == SkipWs(s, i)
    IN  IF At(s, j, "]") THEN ParseOk(VList(<<>>), j + 1)
        ELSE ParseElements(s, j, <<>>)

AfterElement(s, d, elems) ==
    IF At(s, d, "]") THEN ParseOk(VList(elems), d + 1)
    ELSE IF At(s, d, ",") THEN ParseElements(s, SkipWs(s, d + 1), elems)
    ELSE ParseFail

AfterElementValue(s, v, acc) ==
    IF ~v.ok THEN ParseFail
    ELSE AfterElement(s, SkipWs(s, v.pos), Append(acc, v.val))

ParseElements(s, i, acc) == AfterElementValue(s, ParseValue(s, i), acc)

\* json.scanner.py_make_scanner._scan_once at position i.  The scanner
\* tries NUMBER_RE before NaN, Infinity and -Infinity; no number starts one
\* of those three, so trying it last finds the same value.
ParseValue(s, i) ==
    IF i > Len(s) THEN ParseFail
    ELSE IF s[i] = "\"" THEN ScanString(s, i + 1, <<>>)
    ELSE IF s[i] = "{" THEN ParseObject(s, i + 1)
    ELSE IF s[i] = "[" THEN ParseArray(s, i + 1)
    ELSE IF Matches(s, i, <<"n", "u", "l", "l">>) THEN ParseOk(VNull, i + 4)
    ELSE IF Matches(s, i, <<"t", "r", "u", "e">>) THEN ParseOk(VBool(TRUE), i + 4)
    ELSE IF Matches(s, i, <<"f", "a", "l", "s", "e">>) THEN ParseOk(VBool(FALSE), i + 5)
    ELSE IF Matches(s, i, <<"N", "a", "N">>)
         THEN ParseOk(VNum(NonFinite("nan", FALSE)), i + 3)
    ELSE IF Matches(s, i, <<"I", "n", "f", "i", "n", "i", "t", "y">>)
         THEN ParseOk(VNum(NonFinite("inf", FALSE)), i + 8)
    ELSE IF Matches(s, i, <<"-", "I", "n", "f", "i", "n", "i", "t", "y">>)
         THEN ParseOk(VNum(NonFinite("inf", TRUE)), i + 9)
    ELSE ScanNumber(s, i)

\* after the value: whitespace only, up to the end of s
EndOfDocument(s, v) ==
    IF v.ok /\ SkipWs(s, v.pos) = Len(s) + 1 THEN v ELSE ParseFail

\* json.loads(s): one value, surrounded by whitespace only; ok = FALSE is
\* JSONDecodeError
JsonLoads(s) == EndOfDocument(s, ParseValue(s, SkipWs(s, 1)))

\* ------------------------------------------------------------ weight reply

\* A backend reply (message.content): a text, or None
Text(s) == [none |-> FALSE, text |-> s]
NoneText == [none |-> TRUE, text |-> <<>>]

\* A weight_value: None, or a float
None == [found |-> FALSE, num |-> FloatOfNum(Zero)]
Found(num) == [found |-> TRUE, num |-> num]

SetMin(S) == CHOOSE i \in S : \A j \in S : i <= j
SetMax(S) == CHOOSE i \in S : \A j \in S : j <= i

NoMatch == [found |-> FALSE, from |-> 0, to |-> 0]

\* the span from the first "{" to the first "}" after it (a non-greedy search)
BraceSearchLazy(s) ==
    LET opens == {i \in 1..Len(s) : s[i] = "{"}
        after == {j \in 1..Len(s) : s[j] = "}" /\ opens # {} /\ j > SetMin(opens)}
    IN  IF after = {} THEN NoMatch
        ELSE [found |-> TRUE, from |-> SetMin(opens), to |-> SetMin(after)]

\* re.search(r'\{[\s\S]*\}', s): the leftmost "{" that has a "}" after it
\* is the first "{", and the greedy star runs to the last "}"
BraceSearch(s) ==
    LET opens == {i \in 1..Len(s) : s[i] = "{"}
        closes == {j \in 1..Len(s) : s[j] = "}"}
    IN  IF opens = {} \/ closes = {} \/ SetMax(closes) < SetMin(opens)
        THEN NoMatch
        ELSE [found |-> TRUE, from |-> SetMin(opens), to |-> SetMax(closes)]

KeyWeight == <<"w", "e", "i", "g", "h", "t">>

\* d.get(key): the value of the last member with that key, None when absent
DictGet(members, key) ==
    LET hits == {i \in 1..Len(members) : members[i].k = key}
    IN  IF hits = {} THEN VNull ELSE members[SetMax(hits)].v

\* "if weight_value is not None:" in place of the truthiness test
TruthyNotNone(v) == v.t # "null"

\* bool(v), the test of "if weight_value:"
Truthy(v) ==
    CASE v.t = "null" -> FALSE
      [] v.t = "bool" -> v.b
      [] v.t = "num" -> NumTruthy(v.num)
      [] v.t = "str" -> v.s # <<>>
      [] OTHER -> v.items # <<>>

\* ''.join(c for c in weight_value if c.isdigit() or c == '.')
KeepNumeric(s) == SelectSeq(s, LAMBDA c : IsDigit(c) \/ c = ".")

Count(s, c) == Cardinality({i \in 1..Len(s) : s[i] = c})

IndexOf(s, c) == SetMin({i \in 1..Len(s) : s[i] = c})

\* the float written t, whose point is at index dot (Len(t) + 1: no point)
FloatAt(t, dot) ==
    Scaled("float", FALSE,
           NatOf(t, 1, dot) * Pow10(IF dot <= Len(t) THEN Len(t) - dot ELSE 0)
               + NatOf(t, dot + 1, Len(t) + 1),
           0 - (IF dot <= Len(t) THEN Len(t) - dot ELSE 0))

\* float(t) of a text t without blanks, sign or exponent: ok = FALSE is
\* ValueError.  float takes decimal digits around at most one point, with
\* at least one digit.
FloatOfStr(t) ==
    IF /\ \A i \in 1..Len(t) : t[i] \in DecimalDigits \cup {"."}
       /\ Count(t, ".") <= 1
       /\ Len(t) > Count(t, ".")
    THEN [ok |-> TRUE,
          num |-> FloatAt(t, IF Count(t, ".") = 1 THEN IndexOf(t, ".") ELSE Len(t) + 1)]
    ELSE [ok |-> FALSE, num |-> FloatOfNum(Zero)]

Returned(w) == [exc |-> "", value |-> w]
Raised(e) == [exc |-> e, value |-> None]

FloatResult(f) == IF f.ok THEN Returned(Found(f.num)) ELSE Raised("ValueError")

\* lines 333-340: the conversion of the value read under "weight"
ConvertWeight(v) ==
    IF Truthy(v)
    THEN IF v.t = "str" THEN FloatResult(FloatOfStr(KeepNumeric(v.s)))
         ELSE IF v.t = "num" THEN Returned(Found(FloatOfNum(v.num)))
         ELSE IF v.t = "bool" THEN Returned(Found(Scaled("float", FALSE, 1, 0)))
         ELSE Raised("TypeError")
    ELSE Returned(None)

\* lines 329-340: json.loads of the matched span, and the weight it holds
WeightOfLoaded(weight_data) ==
    IF ~weight_data.ok THEN Raised("JSONDecodeError")
    ELSE IF weight_data.val.t # "dict" THEN Raised("AttributeError")
    ELSE ConvertWeight(DictGet(weight_data.val.items, KeyWeight))

\* lines 328-342: "if json_match:"
WeightOfMatch(text, json_match) ==
    IF ~json_match.found THEN Returned(None)
    ELSE WeightOfLoaded(JsonLoads(SubSeq(text, json_match.from, json_match.to)))

\* lines 327-342: the body of the inner try; re.search raises TypeError on None
TryParseWeight(reply) ==
    IF reply.none THEN Raised("TypeError")
    ELSE WeightOfMatch(reply.text, BraceSearch(reply.text))

\* an inner handler that lets the exception through to the outer try
InnerExceptReraise(attempt) == [raised |-> TRUE, value |-> None]

\* an inner handler "except TypeError": any other exception goes through
InnerExceptTypeErrorOnly(attempt) ==
    [raised |-> attempt.exc # "TypeError", value |-> None]

\* lines 343-345: "except Exception as e": weight_value = None
InnerExcept(attempt) == [raised |-> FALSE, value |-> None]

HandleAttempt(attempt) ==
    IF attempt.exc = "" THEN [raised |-> FALSE, value |-> attempt.value]
    ELSE InnerExcept(attempt)

\* lines 325-345: the inner try with its handler
ParseWeight(reply) == HandleAttempt(TryParseWeight(reply))

\* ------------------------------------------------------------ inputs

\* the number of requests in flight together
MaxReq == 2
\* the longest uploaded document, in pages
MaxPages == 2
\* the longest prose before and after the body of a reply, in characters
MaxProse == 2

Req == 1..MaxReq

Endpoints == {"ocr", "extract-weight"}

\* An upload: a PDF of some number of pages, or bytes that are no PDF
Docs == [corrupt : {FALSE}, pages : 0..MaxPages] \cup {[corrupt |-> TRUE, pages |-> 0]}

NoDoc == [corrupt |-> TRUE, pages |-> 0]

\* the image of page k of a document
PageImage(doc, k) == [pages |-> doc.pages, index |-> k]

NoImage == [pages |-> 0, index |-> 0]

\* convert_from_bytes(pdf_bytes, dpi=300): one image per page, in order;
\* it raises on bytes it cannot read
ConvertFromBytes(doc) ==
    IF doc.corrupt THEN [raised |-> TRUE, images |-> <<>>]
    ELSE [raised |-> FALSE, images |-> [k \in 1..doc.pages |-> PageImage(doc, k)]]

Q(t) == <<"\"">> \o t \o <<"\"">>

\* {"weight":v}
WeightObject(v) == <<"{">> \o Q(KeyWeight) \o <<":">> \o v \o <<"}">>

NumberTexts ==
    { <<"0">>, <<"0", ".", "0">>, <<"5">>, <<"1", "2", ".", "5">>,
      <<"1", "5", "0", "0">>, <<"-", "5">>, <<"1", "e", "2">>,
      <<"0", "1">>, <<"1", ".">>, <<"N", "a", "N">>,
      <<"I", "n", "f", "i", "n", "i", "t", "y">> }

StringTexts ==
    { Q(t) : t \in
        { <<>>, <<"1", "2", ".", "5", " ", "k", "g">>, <<"1", "5", "0", "0", " ", "g">>,
          <<"k", "g">>, <<"1", ".", "2", ".", "3">>, <<"0">>, <<"0", ".", "0">>,
          <<"0", " ", "k", "g">>, <<"2", ".", "3", "5">>, <<"1", "2", "sup2">>,
          <<"5", ".">>, <<".", "5">>, <<"-", "5">>, <<"a", "\n", "b">> } }

OtherTexts ==
    { <<"n", "u", "l", "l">>, <<"t", "r", "u", "e">>, <<"f", "a", "l", "s", "e">>,
      <<"n", "u", "l">>, <<"[", "1", "]">>, <<"[", "]">>, <<"{", "}">>,
      <<"1", ",">>, <<>> }

\* the bodies of the replies: objects with a weight of every type, objects
\* without one, malformed objects, and texts without a pair of braces
Bodies ==
    { WeightObject(v) : v \in NumberTexts \cup StringTexts \cup OtherTexts }
    \cup { <<"{", " ">> \o Q(KeyWeight) \o <<" ", ":", " ", "5", " ", "}">>,
           <<"{", "}">>,
           <<"{">> \o Q(<<"w">>) \o <<":", "5", "}">>,
           <<"{">> \o Q(<<"a">>) \o <<":", "{", "}", ",">> \o Q(KeyWeight) \o <<":", "5", "}">>,
           <<"{">> \o Q(KeyWeight) \o <<":", "1", ",">> \o Q(KeyWeight) \o <<":">>
               \o Q(<<"7", " ", "k", "g">>) \o <<"}">>,
           <<"{">> \o Q(<<"a">>) \o <<":">> \o WeightObject(<<"5">>) \o <<"}">>,
           <<"{">> \o KeyWeight \o <<":", "1", "}">>,
           <<"{">> \o Q(KeyWeight) \o <<" ", "1", "}">>,
           <<>>, <<"5">> }

ProseChars == {"a", "{", "}"}

\* the texts of at most n prose characters
RECURSIVE Prose(_)
Prose(n) ==
    IF n = 0 THEN {<<>>}
    ELSE Prose(n - 1) \cup {Append(t, c) : t \in Prose(n - 1), c \in ProseChars}

Preamble ==
    <<"S", "u", "r", "e", "!", " ", "H", "e", "r", "e", " ", "i", "s", " ",
      "t", "h", "e", " ", "r", "e", "s", "u", "l", "t", ":", "\n">>

\* the replies the backend may give on the weight path: a body, with prose
\* around it, or no content at all
WeightReplies ==
    { Text(pre \o body \o post) :
        pre \in Prose(MaxProse) \cup {Preamble}, body \in Bodies, post \in Prose(MaxProse) }
    \cup {NoneText}

\* the replies the backend may give when requests run together
SharedReplies ==
    { Text(<<>>), Text(WeightObject(<<"5">>)),
      Text(<<"a">> \o WeightObject(Q(<<"0">>))), NoneText }

\* ------------------------------------------------------------ constants

MaxTokensInvoice == 1200
MaxTokensWeight == 200
Temperature == 0
StatusError == 500

\* the instruction and the output budget of each endpoint's backend call
PromptFor(ep) == IF ep = "ocr" THEN "PROMPT" ELSE "WEIGHT_PROMPT"
MaxTokensFor(ep) == IF ep = "ocr" THEN MaxTokensInvoice ELSE MaxTokensWeight

\* the detail of the other endpoint's error
ErrorDetailSwapped(ep) ==
    IF ep = "ocr" THEN "Weight extraction failed" ELSE "Qwen OCR failed"

\* lines 303 and 356: the detail of the HTTPException each handler raises
ErrorDetail(ep) ==
    IF ep = "ocr" THEN "Qwen OCR failed" ELSE "Weight extraction failed"

\* ------------------------------------------------------------ state

VARIABLES
    pc,            \* where each request's handler is
    endpoint,      \* the endpoint each request came in on
    upload,        \* the document each request uploaded
    pdf_bytes,     \* the handler's local pdf_bytes
    images,        \* the handler's local images
    page,          \* the handler's local invoice_page / weight_slip_page
    qwen_text,     \* the handler's local qwen_text
    weight_value,  \* the handler's local weight_value
    sent,          \* the message of each request's backend call
    calls,         \* how many backend calls each request has issued
    answer,        \* what the backend did with each request's call
    response       \* what each request's caller received

vars == <<pc, endpoint, upload, pdf_bytes, images, page, qwen_text, weight_value,
          sent, calls, answer, response>>

NoMessage == [image |-> NoImage, prompt |-> "", max_tokens |-> 0, temperature |-> 0]
NoAnswer == [state |-> "none", reply |-> NoneText]
Pending == [kind |-> "pending", status |-> 0, detail |-> "",
            invoice_json |-> NoneText, weight |-> None]

\* line 303 / 356: raise HTTPException(status_code=500, detail=...)
HttpError(ep) == [Pending EXCEPT !.kind = "error", !.status = StatusError,
                                 !.detail = ErrorDetail(ep)]
\* lines 294-297: {"success": True, "invoice_json": qwen_text}
InvoiceSuccess(text) == [Pending EXCEPT !.kind = "invoice", !.invoice_json = text]
\* lines 347-350: {"success": True, "weight": weight_value}
WeightSuccess(w) == [Pending EXCEPT !.kind = "weight", !.weight = w]

\* a handler that keeps its variables in one module-level place
FrameShared(r) == 1

\* the frame holding the locals of request r's handler: its own invocation's
Frame(r) == r

\* after a failed backend call: call again, once
PcAfterBackendErrorRetry(n) == IF n < 2 THEN "call" ELSE "except"

\* lines 299 / 352: an exception out of call_qwen lands in the outer handler
PcAfterBackendError(n) == "except"

\* the invoice reply with its surrounding prose cut off
InvoiceJsonTrimmed(reply) ==
    IF reply.none \/ ~BraceSearch(reply.text).found THEN reply
    ELSE Text(SubSeq(reply.text, BraceSearch(reply.text).from, BraceSearch(reply.text).to))

\* line 296: "invoice_json": qwen_text
InvoiceJson(reply) == reply

Init ==
    /\ pc = [r \in Req |-> "idle"]
    /\ endpoint = [r \in Req |-> "ocr"]
    /\ upload = [r \in Req |-> NoDoc]
    /\ pdf_bytes = [r \in Req |-> NoDoc]
    /\ images = [r \in Req |-> <<>>]
    /\ page = [r \in Req |-> NoImage]
    /\ qwen_text = [r \in Req |-> NoneText]
    /\ weight_value = [r \in Req |-> None]
    /\ sent = [r \in Req |-> NoMessage]
    /\ calls = [r \in Req |-> 0]
    /\ answer = [r \in Req |-> NoAnswer]
    /\ response = [r \in Req |-> Pending]

\* a request arrives on one of the endpoints eps with an upload
Arrive(r, eps) ==
    /\ pc[r] = "idle"
    /\ \E ep \in eps, doc \in Docs :
          /\ endpoint' = [endpoint EXCEPT ![r] = ep]
          /\ upload' = [upload EXCEPT ![r] = doc]
    /\ pc' = [pc EXCEPT ![r] = "read"]
    /\ UNCHANGED <<pdf_bytes, images, page, qwen_text, weight_value, sent, calls,
                   answer, response>>

\* lines 277 / 308: pdf_bytes = await pdf.read()
Read(r) ==
    /\ pc[r] = "read"
    /\ pdf_bytes' = [pdf_bytes EXCEPT ![Frame(r)] = upload[r]]
    /\ pc' = [pc EXCEPT ![r] = "rasterize"]
    /\ UNCHANGED <<endpoint, upload, images, page, qwen_text, weight_value, sent,
                   calls, answer, response>>

\* lines 279-284 / 310-315: rasterize, raise on no page, take the first page
Rasterize(r) ==
    /\ pc[r] = "rasterize"
    /\ LET out == ConvertFromBytes(pdf_bytes[Frame(r)])
       IN  IF out.raised
           THEN /\ pc' = [pc EXCEPT ![r] = "except"]
                /\ UNCHANGED <<images, page>>
           ELSE /\ images' = [images EXCEPT ![Frame(r)] = out.images]
                /\ IF out.images = <<>>
                   THEN /\ pc' = [pc EXCEPT ![r] = "except"]
                        /\ UNCHANGED page
                   ELSE /\ page' = [page EXCEPT ![Frame(r)] = out.images[1]]
                        /\ pc' = [pc EXCEPT ![r] = "call"]
    /\ UNCHANGED <<endpoint, upload, pdf_bytes, qwen_text, weight_value, sent, calls,
                   answer, response>>

\* lines 203-233 / 238-268: call_qwen / call_qwen_weight up to the request
\* client.chat.completions.create sends
Dispatch(r) ==
    /\ pc[r] = "call"
    /\ sent' = [sent EXCEPT ![r] = [image |-> page[Frame(r)],
                                    prompt |-> PromptFor(endpoint[r]),
                                    max_tokens |-> MaxTokensFor(endpoint[r]),
                                    temperature |-> Temperature]]
    /\ calls' = [calls EXCEPT ![r] = @ + 1]
    /\ answer' = [answer EXCEPT ![r] = NoAnswer]
    /\ pc' = [pc EXCEPT ![r] = "wait"]
    /\ UNCHANGED <<endpoint, upload, pdf_bytes, images, page, qwen_text, weight_value,
                   response>>

\* lines 235, 288 / 270, 319: the backend replies with one of replies, and
\* qwen_text = completion.choices[0].message.content
BackendReturn(r, replies) ==
    /\ pc[r] = "wait"
    /\ \E reply \in replies :
          /\ answer' = [answer EXCEPT ![r] = [state |-> "replied", reply |-> reply]]
          /\ qwen_text' = [qwen_text EXCEPT ![Frame(r)] = reply]
    /\ pc' = [pc EXCEPT ![r] = IF endpoint[r] = "ocr" THEN "respond" ELSE "interpret"]
    /\ UNCHANGED <<endpoint, upload, pdf_bytes, images, page, weight_value, sent,
                   calls, response>>

\* lines 212 / 247: the backend call raises (transport, authentication, model)
BackendFail(r) ==
    /\ pc[r] = "wait"
    /\ answer' = [answer EXCEPT ![r] = [state |-> "failed", reply |-> NoneText]]
    /\ pc' = [pc EXCEPT ![r] = PcAfterBackendError(calls[r])]
    /\ UNCHANGED <<endpoint, upload, pdf_bytes, images, page, qwen_text, weight_value,
                   sent, calls, response>>

\* lines 325-345: the interpretation of the weight reply
Interpret(r) ==
    /\ pc[r] = "interpret"
    /\ LET out == ParseWeight(qwen_text[Frame(r)])
       IN  IF out.raised
           THEN /\ pc' = [pc EXCEPT ![r] = "except"]
                /\ UNCHANGED weight_value
           ELSE /\ weight_value' = [weight_value EXCEPT ![Frame(r)] = out.value]
                /\ pc' = [pc EXCEPT ![r] = "respond"]
    /\ UNCHANGED <<endpoint, upload, pdf_bytes, images, page, qwen_text, sent, calls,
                   answer, response>>

\* lines 294-297 / 347-350: the success envelope
Respond(r) ==
    /\ pc[r] = "respond"
    /\ response' = [response EXCEPT ![r] =
          IF endpoint[r] = "ocr" THEN InvoiceSuccess(InvoiceJson(qwen_text[Frame(r)]))
          ELSE WeightSuccess(weight_value[Frame(r)])]
    /\ pc' = [pc EXCEPT ![r] = "done"]
    /\ UNCHANGED <<endpoint, upload, pdf_bytes, images, page, qwen_text, weight_value,
                   sent, calls, answer>>

\* lines 299-303 / 352-356: the outer handler turns any exception into the
\* endpoint's HTTPException
Except(r) ==
    /\ pc[r] = "except"
    /\ response' = [response EXCEPT ![r] = HttpError(endpoint[r])]
    /\ pc' = [pc EXCEPT ![r] = "done"]
    /\ UNCHANGED <<endpoint, upload, pdf_bytes, images, page, qwen_text, weight_value,
                   sent, calls, answer>>

\* Requests on both endpoints, running together.  Every step of one
\* request may fall between two steps of another: the handlers are
\* coroutines that yield at "await pdf.read()", and a server may run them on
\* several workers.
Next ==
    \E r \in Req :
        \/ Arrive(r, Endpoints)
        \/ Read(r)
        \/ Rasterize(r)
        \/ Dispatch(r)
        \/ BackendReturn(r, SharedReplies)
        \/ BackendFail(r)
        \/ Interpret(r)
        \/ Respond(r)
        \/ Except(r)

Spec == Init /\ [][Next]_vars

\* one request on the weight endpoint, over every reply of WeightReplies
NextWeight ==
    \/ Arrive(1, {"extract-weight"})
    \/ Read(1)
    \/ Rasterize(1)
    \/ Dispatch(1)
    \/ BackendReturn(1, WeightReplies)
    \/ BackendFail(1)
    \/ Interpret(1)
    \/ Respond(1)
    \/ Except(1)

SpecWeight == Init /\ [][NextWeight]_vars

\* ------------------------------------------------------------ properties

WeightReplied(r) ==
    /\ endpoint[r] = "extract-weight"
    /\ answer[r].state = "replied"

WeightDone(r) == WeightReplied(r) /\ pc[r] = "done"

\* the span re.search matches in a text, and what json.loads makes of it
SpanOf(s) == SubSeq(s, BraceSearch(s).from, BraceSearch(s).to)
LoadedOf(s) == JsonLoads(SpanOf(s))

\* a weight_value is None or a float (NaN and the infinities are floats)
IsWeightValue(w) == w = None \/ (w.found /\ w.num.cls = "float")

ObjectSpans(s) ==
    {sp \in {i \in 1..Len(s) : s[i] = "{"} \X {j \in 1..Len(s) : s[j] = "}"} :
        /\ sp[1] < sp[2]
        /\ JsonLoads(SubSeq(s, sp[1], sp[2])).ok}

\* those that lie in no other one: the objects the text contains
OutermostObjects(s) ==
    LET spans == ObjectSpans(s)
    IN  {sp \in spans :
            \A other \in spans :
                (other[1] <= sp[1] /\ sp[2] <= other[2]) => other = sp}

HasBracePair(s) ==
    \E i, j \in 1..Len(s) : i < j /\ s[i] = "{" /\ s[j] = "}"

\* the weight an object's text holds
WeightOfObject(obj) == HandleAttempt(WeightOfLoaded(JsonLoads(obj))).value

\* the object at span sp of the text is recovered: it is the span parsed,
\* and its weight is the weight answered
Recovered(r, s, sp) ==
    /\ BraceSearch(s) = [found |-> TRUE, from |-> sp[1], to |-> sp[2]]
    /\ response[r].weight = WeightOfObject(SubSeq(s, sp[1], sp[2]))

\* C2, as claimed: whatever the prose around the one valid JSON object of
\* a reply, that object is recovered; a reply without a "{" ... "}" pair
\* gives None.
C2_AnyProse ==
    \A r \in Req :
        (WeightDone(r) /\ ~answer[r].reply.none) =>
            LET s == answer[r].reply.text
                objects == OutermostObjects(s)
            IN  /\ Cardinality(objects) = 1 => \A sp \in objects : Recovered(r, s, sp)
                /\ ~HasBracePair(s) => response[r].weight = None

\* C2, amended: the one valid JSON object of a reply is recovered when the
\* prose before it holds no "{" and the prose after it holds no "}"; a reply
\* without a "{" ... "}" pair gives None.
C2_ProseWithoutBraces ==
    \A r \in Req :
        (WeightDone(r) /\ ~answer[r].reply.none) =>
            LET s == answer[r].reply.text
                objects == OutermostObjects(s)
            IN  /\ Cardinality(objects) = 1 =>
                      \A sp \in objects :
                          ( /\ \A i \in 1..(sp[1] - 1) : s[i] # "{"
                            /\ \A j \in (sp[2] + 1)..Len(s) : s[j] # "}" )
                          => Recovered(r, s, sp)
                /\ ~HasBracePair(s) => response[r].weight = None

\* the reply "Sure! Here is the result:\n{"weight": "2.35"}" was answered 2.35
C2_Witness ==
    \E r \in Req :
        /\ WeightDone(r)
        /\ answer[r].reply = Text(Preamble \o WeightObject(Q(<<"2", ".", "3", "5">>)))
        /\ response[r].weight = Found(Scaled("float", FALSE, 235, 0 - 2))

FalsyWeight(members) ==
    \/ \A i \in 1..Len(members) : members[i].k # KeyWeight
    \/ DictGet(members, KeyWeight) = VNull
    \/ DictGet(members, KeyWeight) = VStr(<<>>)
    \/ /\ DictGet(members, KeyWeight).t = "num"
       /\ DictGet(members, KeyWeight).num.kind = "fin"
       /\ DictGet(members, KeyWeight).num.m = 0

\* C4: when the parsed object has no weight key, or a weight that is the
\* empty string, the number 0 or null, the answer is weight None.
C4_FalsyCollapse ==
    \A r \in Req :
        ( /\ WeightDone(r)
          /\ ~answer[r].reply.none
          /\ BraceSearch(answer[r].reply.text).found
          /\ LoadedOf(answer[r].reply.text).ok
          /\ FalsyWeight(LoadedOf(answer[r].reply.text).val.items) )
        => response[r] = WeightSuccess(None)

\* the reply {"weight":0} was answered None
C4_Witness ==
    \E r \in Req :
        /\ WeightDone(r)
        /\ answer[r].reply = Text(WeightObject(<<"0">>))
        /\ response[r] = WeightSuccess(None)

\* the rasterizer gave request r an empty sequence of pages
RasterizedEmpty(r) ==
    /\ pc[r] \notin {"idle", "read", "rasterize"}
    /\ ~ConvertFromBytes(upload[r]).raised
    /\ ConvertFromBytes(upload[r]).images = <<>>

\* C5: on either endpoint, a request whose document rasterizes to no page
\* issues no backend call, at any point, and ends with the endpoint's fixed
\* error, "Qwen OCR failed" or "Weight extraction failed".
C5_NoPageNoCall ==
    \A r \in Req :
        RasterizedEmpty(r) =>
            /\ calls[r] = 0
            /\ sent[r] = NoMessage
            /\ pc[r] \in {"except", "done"}
            /\ pc[r] = "done" =>
                  /\ response[r].kind = "error"
                  /\ endpoint[r] = "ocr" => response[r].detail = "Qwen OCR failed"
                  /\ endpoint[r] = "extract-weight"
                        => response[r].detail = "Weight extraction failed"

\* a request on the weight endpoint with a document of no page has ended
C5_Witness ==
    \E r \in Req :
        /\ RasterizedEmpty(r)
        /\ pc[r] = "done"
        /\ endpoint[r] = "extract-weight"
        /\ response[r].kind = "error"
        /\ calls[r] = 0

\* C6: on the invoice endpoint, after a page was rasterized and the backend
\* gave a non-empty reply, the response is the success envelope whose
\* invoice_json is that reply, character for character.
C6_InvoicePassthrough ==
    \A r \in Req :
        ( /\ pc[r] = "done"
          /\ endpoint[r] = "ocr"
          /\ answer[r].state = "replied"
          /\ ~answer[r].reply.none
          /\ answer[r].reply.text # <<>> )
        => /\ response[r].kind = "invoice"
           /\ response[r].status = 0
           /\ response[r].invoice_json = answer[r].reply

\* a reply that is no JSON text went out as it came
C6_Witness ==
    \E r \in Req :
        /\ pc[r] = "done"
        /\ endpoint[r] = "ocr"
        /\ answer[r].reply = Text(<<"a">> \o WeightObject(Q(<<"0">>)))
        /\ response[r].invoice_json = answer[r].reply

StrippedWeight(t) ==
    IF FloatOfStr(SelectSeq(t, LAMBDA c : c \in DecimalDigits \cup {"."})).ok
    THEN Found(FloatOfStr(SelectSeq(t, LAMBDA c : c \in DecimalDigits \cup {"."})).num)
    ELSE None

\* C8, as claimed: a textual weight is answered as the number its decimal
\* digits and points write ("12.5 kg" 12.5, "1500 g" 1500), and as None
\* when they write no number ("kg", "1.2.3").
C8_UnitStripping ==
    \A r \in Req :
        ( /\ WeightDone(r)
          /\ ~answer[r].reply.none
          /\ BraceSearch(answer[r].reply.text).found
          /\ LoadedOf(answer[r].reply.text).ok
          /\ DictGet(LoadedOf(answer[r].reply.text).val.items, KeyWeight).t = "str" )
        => response[r].weight =
              StrippedWeight(DictGet(LoadedOf(answer[r].reply.text).val.items, KeyWeight).s)

\* what a request's inputs alone determine its response to be
ExpectedResponse(ep, doc, ans) ==
    IF ConvertFromBytes(doc).raised \/ ConvertFromBytes(doc).images = <<>>
       \/ ans.state = "failed"
    THEN [Pending EXCEPT !.kind = "error", !.status = StatusError,
                         !.detail = IF ep = "ocr" THEN "Qwen OCR failed"
                                    ELSE "Weight extraction failed"]
    ELSE IF ep = "ocr" THEN [Pending EXCEPT !.kind = "invoice", !.invoice_json = ans.reply]
    ELSE [Pending EXCEPT !.kind = "weight", !.weight = ParseWeight(ans.reply).value]

\* the places a request's handler keeps its data in
LocalsOf(r) == <<pdf_bytes[r], images[r], page[r], qwen_text[r], weight_value[r],
                 sent[r], calls[r], answer[r], response[r]>>

\* C9: under every interleaving, the response of a request that has ended
\* is the one its own upload and its own backend reply determine, its call
\* carried the first page of its own document, and a step of one request
\* changes nothing another request keeps.
C9_Independence ==
    /\ [](\A r \in Req :
            /\ pc[r] = "done" => response[r] = ExpectedResponse(endpoint[r], upload[r], answer[r])
            /\ calls[r] > 0 => sent[r].image = PageImage(upload[r], 1))
    /\ [][\A r \in Req : pc'[r] = pc[r] => LocalsOf(r)' = LocalsOf(r)]_vars

\* two requests held different replies at the same time, and the one that
\* has ended was answered its own
C9_Witness ==
    \E r1, r2 \in Req :
        /\ r1 # r2
        /\ pc[r1] = "done" /\ endpoint[r1] = "ocr" /\ answer[r1].state = "replied"
        /\ pc[r2] = "respond" /\ endpoint[r2] = "extract-weight"
        /\ answer[r1].reply # answer[r2].reply
        /\ upload[r1] # upload[r2]
        /\ response[r1].invoice_json = answer[r1].reply

\* C10, as claimed: every success response of the weight endpoint carries
\* None or a non-zero number.
C10_NeverZero ==
    \A r \in Req :
        (pc[r] = "done" /\ response[r].kind = "weight") =>
            \/ response[r].weight = None
            \/ response[r].weight.found /\ NumTruthy(response[r].weight.num)

====
